---- MODULE Spec2Model ----
(***************************************************************************)
(* Model of src/controller_monitor.py: ControllerMonitor, the input-event  *)
(* tracker behind the click trainer.                                       *)
(*                                                                         *)
(* Threads.  One caller thread (the GUI) runs start, stop, set_threshold,  *)
(* set_callback and set_monitored_button; each producer thread runs        *)
(* _monitor_loop.  A producer is at one of                                 *)
(*   "none"  not spawned,                                                  *)
(*   "loop"  about to evaluate `while self._running`,                      *)
(*   "read"  blocked in inputs.get_gamepad(),                              *)
(*   "proc"  inside `for event in events`, with events left to process,    *)
(*   "dead"  returned from _monitor_loop.                                  *)
(*                                                                         *)
(* Units.  A timestamp is an integer number of ticks of TickUs             *)
(* microseconds.  An unrounded duration is an integer number of            *)
(* microseconds; a value the code rounds to two decimals of a millisecond  *)
(* (PressEvent.duration_ms, the thresholds) is an integer number of        *)
(* hundredths of a millisecond.  Floats are modelled by exact arithmetic.  *)
(***************************************************************************)
EXTENDS Integers, Sequences, FiniteSets, TLC

(***************************************************************************)
(* Bounds of the model.                                                    *)
(***************************************************************************)
\* time.time() returns a tick in 0..MaxTime
MaxTime == 1
\* one tick, in microseconds: 1.125 ms, so that odd tick counts are ties of
\* the rounding to two decimals
TickUs == 1125
\* inputs.get_gamepad() returns at most MaxBatch events
MaxBatch == 1
\* at most MaxPolls poll timestamps are recorded per session under Spec
MaxPolls == 4
\* at most MaxLatencyPolls under SpecLatency
MaxLatencyPolls == 11
\* at most MaxLog completed presses per session
MaxLog == 2
\* producer threads that exist at the same time
MaxThreads == 2
\* short lists of duration samples have at most MaxSamples entries
MaxSamples == 3
\* short series of sessions have at most MaxSessions entries
MaxSessions == 4

(***************************************************************************)
(* Program constants.                                                      *)
(***************************************************************************)
\* threshold_ms: float = 50.0, in hundredths of a millisecond
DefaultThresholdMs == 5000
\* max(1.0, value_ms), in hundredths of a millisecond
MinThresholdMs == 100
\* self._trigger_threshold = 128
trigger_threshold == 128
\* deque(maxlen=2000)
PollMaxLen == 2000
\* timestamps[-200:]
RecentWindow == 200
\* len(self._poll_timestamps) < 10
MinSamples == 10
\* float("inf"): above every duration of the model
Inf == 1000000000

NONE == "None"

\* the None of an Optional[float] timestamp: no tick is negative
NoTime == -1

\* Python truthiness of an Optional[str] or Optional[Callable]
Truthy(x) == x \notin {NONE, ""}

BUTTON_MAP ==
    [c \in {"BTN_SOUTH", "BTN_EAST", "BTN_WEST", "BTN_NORTH", "BTN_TL",
            "BTN_TR", "BTN_THUMBL", "BTN_THUMBR", "BTN_START", "BTN_SELECT"} |->
        CASE c = "BTN_SOUTH" -> "A"
          [] c = "BTN_EAST" -> "B"
          [] c = "BTN_WEST" -> "X"
          [] c = "BTN_NORTH" -> "Y"
          [] c = "BTN_TL" -> "LB"
          [] c = "BTN_TR" -> "RB"
          [] c = "BTN_THUMBL" -> "LS"
          [] c = "BTN_THUMBR" -> "RS"
          [] c = "BTN_START" -> "Start"
          [] c = "BTN_SELECT" -> "Back"]

TRIGGER_MAP == [c \in {"ABS_Z", "ABS_RZ"} |-> IF c = "ABS_Z" THEN "LT" ELSE "RT"]

DPAD_MAP ==
    [c \in {"ABS_HAT0X", "ABS_HAT0Y"} |->
        IF c = "ABS_HAT0X" THEN "D-Pad X" ELSE "D-Pad Y"]

(***************************************************************************)
(* Inputs of the environment.                                              *)
(***************************************************************************)
\* raw events (code, state) the device produces in the model
DigitalEvents == [code : {"BTN_SOUTH", "BTN_EAST"}, state : {0, 1, 2}]
PressEvents == [code : {"BTN_SOUTH", "BTN_EAST"}, state : {0, 1}]
TriggerEvents == [code : {"ABS_Z"}, state : {0, 128, 129, 255}]
DpadEvents == [code : {"ABS_HAT0X"}, state : {-1, 0, 1}]
OtherEvents == [code : {"SYN_REPORT"}, state : {0}]

RECURSIVE SeqsUpTo(_, _)
\* the sequences over S of length 0..n
SeqsUpTo(S, n) ==
    IF n = 0 THEN {<< >>}
    ELSE LET shorter == SeqsUpTo(S, n - 1)
         IN shorter \cup {Append(s, e) : s \in {x \in shorter : Len(x) = n - 1}, e \in S}

\* what inputs.devices.gamepads holds when start() looks: the library is
\* missing, the lookup raises, no gamepad, or a gamepad with this name
DeviceOutcomes == {"nolib", "raises", "nogamepad"}
DeviceNames == {"Xbox Wireless Controller", ""}
\* "bluetooth" in name.lower() or "wireless" in name.lower(), on DeviceNames
IsWirelessName(name) == name \in {"Xbox Wireless Controller"}

ThresholdInputs == {0, 112}
\* threshold_ms of the constructor: 0.5 ms, the default
ConstructorThresholds == {50, DefaultThresholdMs}

ButtonInputs == {NONE, "A", "LT"}
CallbackInputs == {NONE, "ok", "raises"}

Threads == 1..MaxThreads

VARIABLES
    \* ControllerMonitor fields
    threshold_ms, running, thread, button_press_times, press_log,
    poll_timestamps, on_press_complete, stats, controller_name,
    connection_type, gamepad, trigger_states, dpad_states, monitored_button,
    \* producer threads: position, and the locals `now` and `events`
    pc, now, events,
    \* caller thread: position ("idle", or "joining" inside stop)
    main_pc,
    \* the step just taken, when it is a return of start or stop or the
    \* processing of an event: what the device lookup found, what was
    \* returned, the event and the transition it was classified as
    step,
    \* the environment: the last value time.time() returned, and the events
    \* the observer was invoked with in this session
    clock, observed,
    \* history of the session: threshold in effect when each logged event was
    \* processed; last raw state seen per analog code; press opened and not
    \* yet released per button; polls recorded; last edge (Press or Release)
    \* emitted per button; buttons of which a Release was emitted since
    \* their press time was stored; whether an observer was registered all
    \* along
    hThresholds, hPrevState, hOpen, hPolls, hEdge, hReleased, hObserved,
    \* how the session has ended so far: "stopped" once a stop() has returned,
    \* "unplugged" once a read has reported the disconnection while running
    hEnded,
    \* the call under analysis and its result: of a function of
    \* diagnostics.py, of a reader of the press log, or of the gui's refresh
    call

vars ==
    <<threshold_ms, running, thread, button_press_times, press_log,
      poll_timestamps, on_press_complete, stats, controller_name,
      connection_type, gamepad, trigger_states, dpad_states, monitored_button,
      pc, now, events, main_pc, step, clock, observed,
      hThresholds, hPrevState, hOpen, hPolls, hEdge, hReleased, hObserved, hEnded, call>>

monitorVars ==
    <<threshold_ms, running, thread, button_press_times, press_log,
      poll_timestamps, on_press_complete, stats, controller_name,
      connection_type, gamepad, trigger_states, dpad_states, monitored_button>>

NoStep ==
    [op |-> NONE, lookup |-> NONE, ret |-> NONE, code |-> NONE, state |-> 0,
     button |-> NONE, kind |-> NONE, passed |-> FALSE, t |-> 0,
     locked |-> FALSE, cb |-> << >>, prev |-> NoTime, was |-> 0]

\* no function of diagnostics.py has been called
NoCall == [fn |-> NONE]

EmptyDict == [k \in {} |-> 0]

\* d[k] = v
DictSet(d, k, v) == (k :> v) @@ d

\* del d[k]
DictDel(d, k) == [x \in DOMAIN d \ {k} |-> d[x]]

\* d.get(k, default)
DictGet(d, k, default) == IF k \in DOMAIN d THEN d[k] ELSE default

\* SessionStats(start_time=t)
SessionStats(t) ==
    [start_time |-> t,
     total_presses |-> 0,
     presses_per_button |-> EmptyDict,
     min_duration_ms |-> Inf,
     max_duration_ms |-> 0,
     last_duration_ms |-> 0,
     threshold_successes |-> 0,
     below_threshold |-> FALSE,
     durations_history |-> << >>]

\* ControllerMonitor(threshold_ms=threshold): the monitor after __init__
NewMonitor(threshold) ==
    /\ threshold_ms = threshold
    /\ running = FALSE
    /\ thread = 0
    /\ button_press_times = EmptyDict
    /\ press_log = << >>
    /\ poll_timestamps = << >>
    /\ on_press_complete = NONE
    /\ stats = SessionStats(0)
    /\ controller_name = "Nessun controller"
    /\ connection_type = "Sconosciuto"
    /\ gamepad = NONE
    /\ trigger_states = EmptyDict
    /\ dpad_states = EmptyDict
    /\ monitored_button = NONE
    /\ pc = [th \in Threads |-> "none"]
    /\ now = [th \in Threads |-> 0]
    /\ events = [th \in Threads |-> << >>]
    /\ main_pc = "idle"
    /\ step = NoStep
    /\ clock = 0
    /\ observed = << >>
    /\ hThresholds = << >>
    /\ hPrevState = EmptyDict
    /\ hOpen = EmptyDict
    /\ hPolls = 0
    /\ hEdge = EmptyDict
    /\ hReleased = {}
    /\ hObserved = FALSE
    /\ hEnded = {}

\* ControllerMonitor(): threshold_ms takes its default
Init ==
    /\ NewMonitor(DefaultThresholdMs)
    /\ call = NoCall

(***************************************************************************)
(* The caller thread.                                                      *)
(***************************************************************************)
\* set_callback(on_press_complete)
set_callback(cb) ==
    /\ main_pc = "idle"
    /\ on_press_complete' = cb
    /\ hObserved' = (hObserved /\ Truthy(cb))
    /\ step' = NoStep
    /\ UNCHANGED <<threshold_ms, running, thread, button_press_times, press_log,
                   poll_timestamps, stats, controller_name, connection_type,
                   gamepad, trigger_states, dpad_states, monitored_button,
                   pc, now, events, main_pc, clock, observed,
                   hThresholds, hPrevState, hOpen, hPolls, hEdge, hReleased, hEnded, call>>

\* max(1.0, value_ms)
ClampThreshold(value_ms) == IF value_ms > MinThresholdMs THEN value_ms ELSE MinThresholdMs

\* set_threshold(value_ms)
set_threshold(value_ms) ==
    /\ main_pc = "idle"
    /\ threshold_ms' = ClampThreshold(value_ms)
    /\ step' = NoStep
    /\ UNCHANGED <<running, thread, button_press_times, press_log,
                   poll_timestamps, on_press_complete, stats, controller_name,
                   connection_type, gamepad, trigger_states, dpad_states,
                   monitored_button, pc, now, events, main_pc, clock,
                   observed, hThresholds, hPrevState, hOpen, hPolls, hEdge, hReleased, hObserved, hEnded, call>>

\* set_monitored_button(button)
set_monitored_button(button) ==
    /\ main_pc = "idle"
    /\ monitored_button' = button
    /\ step' = NoStep
    /\ UNCHANGED <<threshold_ms, running, thread, button_press_times, press_log,
                   poll_timestamps, on_press_complete, stats, controller_name,
                   connection_type, gamepad, trigger_states, dpad_states,
                   pc, now, events, main_pc, clock, observed,
                   hThresholds, hPrevState, hOpen, hPolls, hEdge, hReleased, hObserved, hEnded, call>>

\* _detect_connection_type, for a gamepad whose name is stored already
DetectConnectionType(name) == IF IsWirelessName(name) THEN "Bluetooth" ELSE "USB"

\* faulty variant: start() resets the session when it is already running
StartWhileRunning_resets ==
    /\ running
    /\ stats' = SessionStats(clock)
    /\ button_press_times' = EmptyDict
    /\ press_log' = << >>
    /\ poll_timestamps' = << >>
    /\ trigger_states' = EmptyDict
    /\ dpad_states' = EmptyDict
    /\ step' = [NoStep EXCEPT !.op = "start", !.ret = "True"]
    /\ UNCHANGED <<threshold_ms, running, thread, on_press_complete,
                   controller_name, connection_type, gamepad, monitored_button,
                   pc, now, events, main_pc, clock, observed,
                   hThresholds, hPrevState, hOpen, hPolls, hEdge, hReleased,
                   hObserved, hEnded, call>>

\* start() when self._running is set already
StartWhileRunning ==
    /\ running
    /\ step' = [NoStep EXCEPT !.op = "start", !.ret = "True"]
    /\ UNCHANGED <<monitorVars, pc, now, events, main_pc, clock, observed,
                   hThresholds, hPrevState, hOpen, hPolls, hEdge, hReleased, hObserved, hEnded, call>>

\* faulty variant: the session is reset before the device is looked up
StartNoController_resets(outcome) ==
    /\ ~running
    /\ controller_name' =
           IF outcome = "nogamepad" THEN "Nessun controller" ELSE controller_name
    /\ stats' = SessionStats(clock)
    /\ button_press_times' = EmptyDict
    /\ press_log' = << >>
    /\ poll_timestamps' = << >>
    /\ trigger_states' = EmptyDict
    /\ dpad_states' = EmptyDict
    /\ step' = [NoStep EXCEPT !.op = "start", !.lookup = outcome, !.ret = "False"]
    /\ UNCHANGED <<threshold_ms, running, thread, on_press_complete, connection_type,
                   gamepad, monitored_button, pc, now, events, main_pc, clock,
                   observed, hThresholds, hPrevState, hOpen, hPolls, hEdge, hReleased,
                   hObserved, hEnded, call>>

\* start() when detect_controller() returns False
StartNoController(outcome) ==
    /\ ~running
    /\ controller_name' =
           IF outcome = "nogamepad" THEN "Nessun controller" ELSE controller_name
    /\ step' = [NoStep EXCEPT !.op = "start", !.lookup = outcome, !.ret = "False"]
    /\ UNCHANGED <<threshold_ms, running, thread, button_press_times, press_log,
                   poll_timestamps, on_press_complete, stats, connection_type,
                   gamepad, trigger_states, dpad_states, monitored_button,
                   pc, now, events, main_pc, clock, observed,
                   hThresholds, hPrevState, hOpen, hPolls, hEdge, hReleased, hObserved, hEnded, call>>

\* the session state start() resets
ResetSession(t) ==
    /\ stats' = SessionStats(t)
    /\ button_press_times' = EmptyDict
    /\ press_log' = << >>
    /\ poll_timestamps' = << >>
    /\ trigger_states' = EmptyDict
    /\ dpad_states' = EmptyDict

\* start() when detect_controller() finds a gamepad called name: the session
\* is reset and thread th is spawned
StartSession(name, t, th) ==
    /\ ~running
    \* the new thread takes the first identity that is free
    /\ pc[th] \in {"none", "dead"}
    /\ \A other \in Threads : other < th => pc[other] \notin {"none", "dead"}
    /\ gamepad' = name
    /\ controller_name' = IF name # "" THEN name ELSE "Controller sconosciuto"
    /\ connection_type' = DetectConnectionType(controller_name')
    /\ running' = TRUE
    /\ clock' = t
    /\ ResetSession(t)
    /\ thread' = th
    /\ pc' = [pc EXCEPT ![th] = "loop"]
    /\ now' = [now EXCEPT ![th] = 0]
    /\ events' = [events EXCEPT ![th] = << >>]
    /\ step' = [NoStep EXCEPT !.op = "start", !.lookup = "gamepad", !.ret = "True"]
    /\ observed' = << >>
    /\ hThresholds' = << >>
    /\ hPrevState' = EmptyDict
    /\ hOpen' = EmptyDict
    /\ hPolls' = 0
    /\ hEdge' = EmptyDict
    /\ hReleased' = {}
    /\ hObserved' = Truthy(on_press_complete)
    /\ hEnded' = {}
    /\ UNCHANGED <<threshold_ms, on_press_complete, monitored_button, main_pc, call>>

\* start(), the device lookup ending in one of outcomes or finding a gamepad
\* with one of names
start(outcomes, names) ==
    /\ main_pc = "idle"
    /\ \/ StartWhileRunning
       \/ \E outcome \in outcomes : StartNoController(outcome)
       \/ \E name \in names, t \in clock..MaxTime, th \in Threads :
              StartSession(name, t, th)

\* start() statement by statement, first part: a gamepad called name is
\* found, _running is set and self.stats is replaced; the caller has yet to
\* clear the collections
start_begin(name, t) ==
    /\ main_pc = "idle"
    /\ ~running
    /\ gamepad' = name
    /\ controller_name' = IF name # "" THEN name ELSE "Controller sconosciuto"
    /\ connection_type' = DetectConnectionType(controller_name')
    /\ running' = TRUE
    /\ clock' = t
    /\ stats' = SessionStats(t)
    /\ main_pc' = "starting"
    /\ step' = NoStep
    /\ UNCHANGED <<threshold_ms, thread, button_press_times, press_log,
                   poll_timestamps, on_press_complete, trigger_states,
                   dpad_states, monitored_button, pc, now, events, observed,
                   hThresholds, hPrevState, hOpen, hPolls, hEdge, hReleased,
                   hObserved, hEnded, call>>

\* start() statement by statement, second part: the collections are cleared,
\* thread th is spawned and start returns True
start_finish(th) ==
    /\ main_pc = "starting"
    /\ pc[th] \in {"none", "dead"}
    /\ \A other \in Threads : other < th => pc[other] \notin {"none", "dead"}
    /\ button_press_times' = EmptyDict
    /\ press_log' = << >>
    /\ poll_timestamps' = << >>
    /\ trigger_states' = EmptyDict
    /\ dpad_states' = EmptyDict
    /\ thread' = th
    /\ pc' = [pc EXCEPT ![th] = "loop"]
    /\ now' = [now EXCEPT ![th] = 0]
    /\ events' = [events EXCEPT ![th] = << >>]
    /\ main_pc' = "idle"
    /\ step' = [NoStep EXCEPT !.op = "start", !.lookup = "gamepad", !.ret = "True"]
    /\ observed' = << >>
    /\ hThresholds' = << >>
    /\ hPrevState' = EmptyDict
    /\ hOpen' = EmptyDict
    /\ hPolls' = 0
    /\ hEdge' = EmptyDict
    /\ hReleased' = {}
    /\ hObserved' = Truthy(on_press_complete)
    /\ hEnded' = {}
    /\ UNCHANGED <<threshold_ms, running, on_press_complete, stats,
                   controller_name, connection_type, gamepad, monitored_button,
                   clock, call>>

\* thread.is_alive()
IsAlive(th) == pc[th] \in {"loop", "read", "proc"}

\* stop(), up to the join: the flag is cleared; the caller joins a live thread
\* and returns at once otherwise
stop_call ==
    /\ main_pc = "idle"
    /\ running' = FALSE
    /\ IF thread # 0 /\ IsAlive(thread)
       THEN /\ main_pc' = "joining"
            /\ step' = NoStep
            /\ hEnded' = hEnded
       ELSE /\ main_pc' = "idle"
            /\ step' = [NoStep EXCEPT !.op = "stop", !.ret = "stats"]
            /\ hEnded' = hEnded \cup {"stopped"}
    /\ UNCHANGED <<threshold_ms, thread, button_press_times, press_log,
                   poll_timestamps, on_press_complete, stats, controller_name,
                   connection_type, gamepad, trigger_states, dpad_states,
                   monitored_button, pc, now, events, clock, observed,
                   hThresholds, hPrevState, hOpen, hPolls, hEdge, hReleased, hObserved, call>>

\* join(timeout=2.0) has returned: the thread ended, or two seconds passed
\* with the thread blocked in inputs.get_gamepad()
JoinReturns(th) == ~IsAlive(th) \/ pc[th] = "read"

\* stop(), from the join on: stop returns self.stats
stop_return ==
    /\ main_pc = "joining"
    /\ JoinReturns(thread)
    /\ main_pc' = "idle"
    /\ step' = [NoStep EXCEPT !.op = "stop", !.ret = "stats"]
    /\ hEnded' = hEnded \cup {"stopped"}
    /\ UNCHANGED <<monitorVars, pc, now, events, clock, observed,
                   hThresholds, hPrevState, hOpen, hPolls, hEdge, hReleased, hObserved, call>>

(***************************************************************************)
(* The producer thread: _monitor_loop.                                     *)
(***************************************************************************)
\* deque.append on a deque(maxlen=PollMaxLen): the oldest entry is dropped
\* once the deque is full
DequeAppend(q, x) ==
    IF Len(q) < PollMaxLen THEN Append(q, x) ELSE Append(Tail(q), x)

\* `while self._running`: the loop goes on to the blocking read, or ends
loop_check(th) ==
    /\ pc[th] = "loop"
    /\ pc' = [pc EXCEPT ![th] = IF running THEN "read" ELSE "dead"]
    /\ step' = NoStep
    /\ UNCHANGED <<monitorVars, now, events, main_pc, clock, observed,
                   hThresholds, hPrevState, hOpen, hPolls, hEdge, hReleased, hObserved, hEnded, call>>

\* inputs.get_gamepad() returns batch; now = time.time() is t; the poll
\* timestamp is recorded.  cap bounds the polls of a session.
read_ok(th, t, batch, cap) ==
    /\ pc[th] = "read"
    /\ hPolls < cap
    /\ clock' = t
    \* `now` is kept only while events of the batch are left to process
    /\ now' = [now EXCEPT ![th] = IF batch = << >> THEN 0 ELSE t]
    /\ poll_timestamps' = DequeAppend(poll_timestamps, t)
    /\ events' = [events EXCEPT ![th] = batch]
    /\ pc' = [pc EXCEPT ![th] = IF batch = << >> THEN "loop" ELSE "proc"]
    /\ hPolls' = hPolls + 1
    /\ step' = NoStep
    /\ UNCHANGED <<threshold_ms, running, thread, button_press_times, press_log,
                   on_press_complete, stats, controller_name, connection_type,
                   gamepad, trigger_states, dpad_states, monitored_button,
                   main_pc, observed, hThresholds, hPrevState, hOpen, hEdge, hReleased,
                   hObserved, hEnded, call>>

\* inputs.get_gamepad() raises inputs.UnpluggedError
read_unplugged(th) ==
    /\ pc[th] = "read"
    /\ running' = FALSE
    /\ pc' = [pc EXCEPT ![th] = "dead"]
    /\ step' = [NoStep EXCEPT !.op = "unplugged"]
    /\ hEnded' = IF running THEN hEnded \cup {"unplugged"} ELSE hEnded
    /\ UNCHANGED <<threshold_ms, thread, button_press_times, press_log,
                   poll_timestamps, on_press_complete, stats, controller_name,
                   connection_type, gamepad, trigger_states, dpad_states,
                   monitored_button, now, events, main_pc, clock,
                   observed, hThresholds, hPrevState, hOpen, hPolls, hEdge, hReleased, hObserved, call>>

\* faulty variant: any exception ends the loop as UnpluggedError does
read_error_ends_loop(th) ==
    /\ pc[th] = "read"
    /\ running' = FALSE
    /\ pc' = [pc EXCEPT ![th] = "dead"]
    /\ step' = [NoStep EXCEPT !.op = "read_error"]
    /\ UNCHANGED <<threshold_ms, thread, button_press_times, press_log,
                   poll_timestamps, on_press_complete, stats, controller_name,
                   connection_type, gamepad, trigger_states, dpad_states,
                   monitored_button, now, events, main_pc, clock,
                   observed, hThresholds, hPrevState, hOpen, hPolls, hEdge, hReleased,
                   hObserved, hEnded, call>>

\* inputs.get_gamepad() raises another exception: logged, time.sleep(0.01)
read_error(th) ==
    /\ pc[th] = "read"
    /\ pc' = [pc EXCEPT ![th] = "loop"]
    /\ step' = [NoStep EXCEPT !.op = "read_error"]
    /\ UNCHANGED <<monitorVars, now, events, main_pc, clock, observed,
                   hThresholds, hPrevState, hOpen, hPolls, hEdge, hReleased, hObserved, hEnded, call>>

(***************************************************************************)
(* _process_event                                                          *)
(***************************************************************************)
\* the edge of an analog input: was_pressed and is_pressed to (is_press,
\* is_release)
Edge(name, was_pressed, is_pressed) ==
    IF is_pressed /\ ~was_pressed
    THEN [button_name |-> name, is_press |-> TRUE, is_release |-> FALSE]
    ELSE IF ~is_pressed /\ was_pressed
    THEN [button_name |-> name, is_press |-> FALSE, is_release |-> TRUE]
    ELSE [button_name |-> NONE, is_press |-> FALSE, is_release |-> FALSE]

\* faulty variant: state >= self._trigger_threshold
TriggerPressed_inclusive(state) == state >= trigger_threshold

\* is_pressed of a trigger
TriggerPressed(state) == state > trigger_threshold

\* faulty variant: state > 0
DpadPressed_positive(state) == state > 0

\* is_pressed of a d-pad axis
DpadPressed(state) == state # 0

\* lines 247-287: button_name, is_press and is_release of the event
Classify(code, state) ==
    IF code \in DOMAIN BUTTON_MAP
    THEN [button_name |-> BUTTON_MAP[code],
          is_press |-> (state = 1),
          is_release |-> (state # 1 /\ state = 0)]
    ELSE IF code \in DOMAIN TRIGGER_MAP
    THEN Edge(TRIGGER_MAP[code], DictGet(trigger_states, code, FALSE),
              TriggerPressed(state))
    ELSE IF code \in DOMAIN DPAD_MAP
    THEN Edge(DPAD_MAP[code], DictGet(dpad_states, code, FALSE),
              DpadPressed(state))
    ELSE [button_name |-> NONE, is_press |-> FALSE, is_release |-> FALSE]

\* the transition the classification stands for
KindOf(c) ==
    IF c.button_name = NONE THEN "Ignore"
    ELSE IF c.is_press THEN "Press"
    ELSE IF c.is_release THEN "Release"
    ELSE "Ignore"

\* faulty variant: the filter is not applied
PassesFilter_unfiltered(button_name) == button_name # NONE

\* lines 289-294: the event reaches the press tracker
PassesFilter(button_name) ==
    /\ button_name # NONE
    /\ ~(Truthy(monitored_button) /\ button_name # monitored_button)

\* round(x, 2) of x = n/d hundredths of a millisecond: to the nearest
\* hundredth, a tie to the even one
RoundHalfEven(n, d) ==
    LET q == n \div d
        r == n - q * d
    IN IF 2 * r < d THEN q
       ELSE IF 2 * r > d THEN q + 1
       ELSE IF q % 2 = 0 THEN q ELSE q + 1

\* faulty variant: the operands of the subtraction are exchanged
DurationOf_swapped(press_time, timestamp) == (press_time - timestamp) * TickUs

\* (timestamp - press_time) * 1000.0, in microseconds
DurationOf(press_time, timestamp) == (timestamp - press_time) * TickUs

\* PressEvent(button, press_time, release_time, round(duration_ms, 2))
PressEvent(button, press_time, release_time, duration_us) ==
    [button |-> button,
     press_time |-> press_time,
     release_time |-> release_time,
     duration_ms |-> RoundHalfEven(duration_us, 10)]

\* faulty variant: d < self.threshold_ms
IsBelowThreshold_strict(d, threshold) == d < threshold

\* d <= self.threshold_ms
IsBelowThreshold(d, threshold) == d <= threshold

\* faulty variant: presses_per_button[button] = 1
CountPress_overwrite(counts, button) == DictSet(counts, button, 1)

\* presses_per_button[button] = presses_per_button.get(button, 0) + 1
CountPress(counts, button) == DictSet(counts, button, DictGet(counts, button, 0) + 1)

\* faulty variant: `if d < min: min = d` followed by `elif d > max: max = d`
MinMaxAfter_elif(d, lo, hi) ==
    IF d < lo THEN [lo |-> d, hi |-> hi]
    ELSE [lo |-> lo, hi |-> IF d > hi THEN d ELSE hi]

\* `if d < min: min = d` followed by `if d > max: max = d`
MinMaxAfter(d, lo, hi) ==
    [lo |-> IF d < lo THEN d ELSE lo, hi |-> IF d > hi THEN d ELSE hi]

\* _update_stats(event) on the SessionStats s
_update_stats(s, event) ==
    LET d == event.duration_ms
        below == IsBelowThreshold(d, threshold_ms)
        minmax == MinMaxAfter(d, s.min_duration_ms, s.max_duration_ms)
    IN [s EXCEPT
           !.total_presses = @ + 1,
           !.last_duration_ms = d,
           !.presses_per_button = CountPress(@, event.button),
           !.min_duration_ms = minmax.lo,
           !.max_duration_ms = minmax.hi,
           !.below_threshold = below,
           !.threshold_successes = IF below THEN @ + 1 ELSE @,
           !.durations_history = Append(@, <<event.release_time, d, event.button>>)]

\* faulty variant: the observer is invoked first and what it raises is not
\* caught, so that the event it raised for is neither logged nor aggregated
_register_press_observer_first(button, press_time, release_time, duration_us) ==
    LET event == PressEvent(button, press_time, release_time, duration_us)
    IN /\ Len(press_log) < MaxLog
       /\ observed' =
              IF Truthy(on_press_complete) THEN Append(observed, event) ELSE observed
       /\ IF on_press_complete = "raises"
          THEN UNCHANGED <<press_log, stats>>
          ELSE /\ press_log' = Append(press_log, event)
               /\ stats' = _update_stats(stats, event)

\* _register_press: the event is logged and aggregated (under the lock), then
\* the observer, when one is registered, is invoked with it; what the observer
\* raises is swallowed
_register_press(button, press_time, release_time, duration_us) ==
    LET event == PressEvent(button, press_time, release_time, duration_us)
    IN /\ Len(press_log) < MaxLog
       /\ press_log' = Append(press_log, event)
       /\ stats' = _update_stats(stats, event)
       /\ observed' =
              IF Truthy(on_press_complete) THEN Append(observed, event) ELSE observed

\* faulty variant: the observer is invoked inside the `with self._lock` block,
\* before the update of the statistics
ObserverCall_in_lock(event) ==
    [event |-> event, lock_held |-> TRUE,
     press_log |-> Append(press_log, event), stats |-> stats]

\* lines 324-332, the invocation self._on_press_complete(event): it comes
\* after the `with self._lock` block, so the lock is released and the log
\* and the statistics are as the block left them
ObserverCall(event) ==
    [event |-> event, lock_held |-> FALSE,
     press_log |-> Append(press_log, event), stats |-> _update_stats(stats, event)]

\* faulty variant: pop(button_name, 0.0), a default that is a timestamp
PopPressTime_zero(button_name) == DictGet(button_press_times, button_name, 0)

\* the value of self._button_press_times.pop(button_name, None)
PopPressTime(button_name) == DictGet(button_press_times, button_name, NoTime)

\* faulty variant: a Press of a button that is held keeps the stored time
TrackTransition_first_press_wins(c, timestamp) ==
    IF c.is_press
    THEN /\ button_press_times' =
                IF c.button_name \in DOMAIN button_press_times
                THEN button_press_times
                ELSE DictSet(button_press_times, c.button_name, timestamp)
         /\ UNCHANGED <<press_log, stats, observed>>
    ELSE IF c.is_release
    THEN LET press_time == PopPressTime(c.button_name)
         IN /\ button_press_times' = DictDel(button_press_times, c.button_name)
            /\ IF press_time # NoTime
               THEN _register_press(c.button_name, press_time, timestamp,
                                    DurationOf(press_time, timestamp))
               ELSE UNCHANGED <<press_log, stats, observed>>
    ELSE UNCHANGED <<button_press_times, press_log, stats, observed>>

\* lines 296-303: the press tracker
TrackTransition(c, timestamp) ==
    IF c.is_press
    THEN /\ button_press_times' = DictSet(button_press_times, c.button_name, timestamp)
         /\ UNCHANGED <<press_log, stats, observed>>
    ELSE IF c.is_release
    THEN LET press_time == PopPressTime(c.button_name)
         IN /\ button_press_times' = DictDel(button_press_times, c.button_name)
            /\ IF press_time # NoTime
               THEN _register_press(c.button_name, press_time, timestamp,
                                    DurationOf(press_time, timestamp))
               ELSE UNCHANGED <<press_log, stats, observed>>
    ELSE UNCHANGED <<button_press_times, press_log, stats, observed>>

\* the history of the session after the event was classified as transition
\* tr, and the step that did it
RecordTransition(event, tr) ==
    /\ step' = [NoStep EXCEPT !.op = "event", !.code = event.code,
                              !.state = event.state, !.button = tr.button,
                              !.kind = tr.kind, !.passed = tr.passed, !.t = tr.t,
                              \* the state of the last event of the input
                              !.was = DictGet(hPrevState, event.code, 0),
                              \* the press time stored for the button before
                              !.prev = DictGet(button_press_times, tr.button, NoTime),
                              \* `with self._lock:` of _register_press
                              !.locked = Len(press_log') > Len(press_log),
                              !.cb = IF Len(observed') > Len(observed)
                                     THEN <<ObserverCall(observed'[Len(observed')])>>
                                     ELSE << >>]
    /\ hPrevState' =
           IF event.code \in DOMAIN TRIGGER_MAP \cup DOMAIN DPAD_MAP
           THEN DictSet(hPrevState, event.code, event.state)
           ELSE hPrevState
    /\ hEdge' =
           IF tr.kind \in {"Press", "Release"}
           THEN DictSet(hEdge, tr.button, tr.kind)
           ELSE hEdge
    /\ hReleased' =
           IF tr.passed /\ tr.kind = "Press" THEN hReleased \ {tr.button}
           ELSE IF tr.kind = "Release" THEN hReleased \cup {tr.button}
           ELSE hReleased
    /\ hOpen' =
           IF tr.passed /\ tr.kind = "Press" THEN DictSet(hOpen, tr.button, tr.t)
           ELSE IF tr.passed /\ tr.kind = "Release" THEN DictDel(hOpen, tr.button)
           ELSE hOpen
    /\ hThresholds' =
           IF Len(press_log') > Len(press_log)
           THEN Append(hThresholds, threshold_ms)
           ELSE hThresholds

\* _process_event(event, now) for the next event of the batch
process_event(th) ==
    /\ pc[th] = "proc"
    /\ LET event == Head(events[th])
           c == Classify(event.code, event.state)
       IN /\ trigger_states' =
                 IF event.code \in DOMAIN TRIGGER_MAP
                 THEN DictSet(trigger_states, event.code, TriggerPressed(event.state))
                 ELSE trigger_states
          /\ dpad_states' =
                 IF event.code \in DOMAIN DPAD_MAP
                 THEN DictSet(dpad_states, event.code, DpadPressed(event.state))
                 ELSE dpad_states
          /\ IF PassesFilter(c.button_name)
             THEN TrackTransition(c, now[th])
             ELSE UNCHANGED <<button_press_times, press_log, stats, observed>>
          /\ RecordTransition(
                 event,
                 [button |-> c.button_name, kind |-> KindOf(c),
                  passed |-> PassesFilter(c.button_name), t |-> now[th]])
    /\ events' = [events EXCEPT ![th] = Tail(events[th])]
    /\ pc' = [pc EXCEPT ![th] = IF Len(events[th]) = 1 THEN "loop" ELSE "proc"]
    \* `now` is dead once the batch is done: it is assigned before its next use
    /\ now' = [now EXCEPT ![th] = IF Len(events[th]) = 1 THEN 0 ELSE @]
    /\ UNCHANGED <<threshold_ms, running, thread, poll_timestamps,
                   on_press_complete, controller_name, connection_type, gamepad,
                   monitored_button, main_pc, clock, hPolls, hObserved, hEnded, call>>

(***************************************************************************)
(* The latency window: get_polling_rate and get_latency_stats.             *)
(***************************************************************************)
\* q[-n:] for n >= 0; -0 is 0, so q[-0:] is q[0:], the whole of q
LastN(q, n) ==
    IF n = 0 \/ Len(q) <= n THEN q ELSE SubSeq(q, Len(q) - n + 1, Len(q))

\* faulty variant: len(self._poll_timestamps) < 2
TooFewSamples_two(timestamps) == Len(timestamps) < 2

\* len(self._poll_timestamps) < 10
TooFewSamples(timestamps) == Len(timestamps) < MinSamples

\* get_polling_rate(): the rate in Hz as the fraction num / den, 0.0 as 0 / 1
get_polling_rate ==
    IF TooFewSamples(poll_timestamps) THEN [num |-> 0, den |-> 1]
    ELSE LET recent == LastN(poll_timestamps, RecentWindow)
         IN IF Len(recent) < 2 THEN [num |-> 0, den |-> 1]
            ELSE LET total_time == (recent[Len(recent)] - recent[1]) * TickUs
                 IN IF total_time > 0
                    THEN [num |-> (Len(recent) - 1) * 1000000, den |-> total_time]
                    ELSE [num |-> 0, den |-> 1]

RECURSIVE SeqSum(_)
\* sum(q)
SeqSum(q) == IF q = << >> THEN 0 ELSE Head(q) + SeqSum(Tail(q))

\* round(sqrt(num / den^2) microseconds, 2) in hundredths of a millisecond:
\* the j with (j - 1/2)^2 <= num / (10 den)^2 < (j + 1/2)^2
RoundedRoot(num, den) ==
    CHOOSE j \in 0..(MaxTime * TickUs) :
        /\ j > 0 => (2 * j - 1) * (2 * j - 1) * 25 * den * den <= num
        /\ num < (2 * j + 1) * (2 * j + 1) * 25 * den * den

\* get_latency_stats(): avg, min, max and jitter of the intervals between
\* polls, in hundredths of a millisecond
get_latency_stats ==
    IF TooFewSamples(poll_timestamps)
    THEN [avg |-> 0, min |-> 0, max |-> 0, jitter |-> 0]
    ELSE LET recent == LastN(poll_timestamps, RecentWindow)
             \* the intervals, in microseconds
             intervals == [i \in 1..(Len(recent) - 1) |->
                              (recent[i + 1] - recent[i]) * TickUs]
             n == Len(intervals)
             total == SeqSum(intervals)
             squares == SeqSum([i \in 1..n |-> intervals[i] * intervals[i]])
         IN [avg |-> RoundHalfEven(total, 10 * n),
             min |-> RoundHalfEven(
                         CHOOSE x \in {intervals[i] : i \in 1..n} :
                             \A i \in 1..n : x <= intervals[i], 10),
             max |-> RoundHalfEven(
                         CHOOSE x \in {intervals[i] : i \in 1..n} :
                             \A i \in 1..n : x >= intervals[i], 10),
             \* variance = sum((x - avg)^2) / n = (n sum(x^2) - sum(x)^2) / n^2
             jitter |-> RoundedRoot(n * squares - total * total, n)]

(***************************************************************************)
(* diagnostics.py: ControllerDiagnostics.  A polling rate is an integer    *)
(* number of hundredths of a hertz, a jitter an integer number of          *)
(* hundredths of a millisecond.                                            *)
(***************************************************************************)
\* QUALITY_THRESHOLDS, in the order of the dict
QUALITY_THRESHOLDS ==
    <<[quality |-> "Ottima", polling_min |-> 20000, jitter_max |-> 200],
      [quality |-> "Buona", polling_min |-> 10000, jitter_max |-> 500],
      [quality |-> "Discreta", polling_min |-> 5000, jitter_max |-> 1000]>>

RECURSIVE FirstQuality_any_condition(_, _, _)
\* faulty variant: `or` in place of `and`
FirstQuality_any_condition(table, polling_rate, jitter) ==
    IF table = << >> THEN "Scarsa"
    ELSE IF polling_rate >= Head(table).polling_min \/ jitter <= Head(table).jitter_max
    THEN Head(table).quality
    ELSE FirstQuality_any_condition(Tail(table), polling_rate, jitter)

RECURSIVE FirstQuality(_, _, _)
\* the loop over QUALITY_THRESHOLDS.items(), from the entries of table on
FirstQuality(table, polling_rate, jitter) ==
    IF table = << >> THEN "Scarsa"
    ELSE IF polling_rate >= Head(table).polling_min /\ jitter <= Head(table).jitter_max
    THEN Head(table).quality
    ELSE FirstQuality(Tail(table), polling_rate, jitter)

\* evaluate_connection(polling_rate, latency_stats)
evaluate_connection(polling_rate, latency_stats) ==
    IF polling_rate = 0 THEN "N/D"
    ELSE FirstQuality(QUALITY_THRESHOLDS, polling_rate,
                      DictGet(latency_stats, "jitter", 0))

\* the polling rates and the latency_stats evaluate_connection is called with
RateInputs == {-100, 0, 1, 4999, 5000, 6000, 9999, 10000, 19999, 20000, 25000}
JitterInputs == {0, 100, 200, 201, 500, 501, 1000, 1001, 1500}
LatencyStatsInputs ==
    {EmptyDict, [k \in {"avg"} |-> 0]}
        \cup {[k \in {"jitter"} |-> j] : j \in JitterInputs}

\* a call of evaluate_connection about to be made
EvaluateCalls ==
    {[fn |-> "evaluate_connection", args |-> <<r, st>>, done |-> FALSE, result |-> NONE] :
         r \in RateInputs, st \in LatencyStatsInputs}

\* the call of evaluate_connection returns
evaluate_connection_returns ==
    /\ call.fn = "evaluate_connection"
    /\ ~call.done
    /\ call' = [call EXCEPT !.done = TRUE,
                            !.result = evaluate_connection(call.args[1], call.args[2])]
    /\ UNCHANGED <<monitorVars, pc, now, events, main_pc, step, clock, observed,
                   hThresholds, hPrevState, hOpen, hPolls, hEdge, hReleased, hObserved, hEnded>>

(***************************************************************************)
(* analyze_press_durations.  A duration is an integer number of hundredths *)
(* of a millisecond, as the press log holds them; a percentage is an       *)
(* integer number of tenths of a percent.                                  *)
(***************************************************************************)
RECURSIVE Insert(_, _)
\* the sorted sequence q with x inserted
Insert(x, q) ==
    IF q = << >> THEN <<x>>
    ELSE IF x <= Head(q) THEN <<x>> \o q
    ELSE <<Head(q)>> \o Insert(x, Tail(q))

RECURSIVE sorted(_)
\* sorted(q)
sorted(q) == IF q = << >> THEN << >> ELSE Insert(Head(q), sorted(Tail(q)))

\* sum((x - avg) ** 2 for x in q) * len(q), which is the sum of the squares of
\* the differences of the pairs of q
SquaredDeviations(q) ==
    SeqSum([i \in 1..Len(q) |->
               SeqSum([j \in 1..Len(q) |->
                          IF i < j THEN (q[i] - q[j]) * (q[i] - q[j]) ELSE 0])])

\* round((sum((x - avg) ** 2 for x in q) / len(q)) ** 0.5, 2) for a nonempty
\* q: the j with (j - 1/2)^2 <= variance < (j + 1/2)^2; the standard
\* deviation is at most half the range of q
StdDev(q) ==
    LET s == sorted(q)
        n == Len(q)
        num == SquaredDeviations(q)
    IN CHOOSE j \in 0..((s[n] - s[1]) \div 2 + 1) :
           /\ j > 0 => (2 * j - 1) * (2 * j - 1) * n * n <= 4 * num
           /\ 4 * num < (2 * j + 1) * (2 * j + 1) * n * n

\* the median of the sorted nonempty s, as the fraction num / den
Median(s) ==
    LET n == Len(s)
    IN IF n % 2 = 0
       THEN [num |-> s[n \div 2] + s[n \div 2 + 1], den |-> 2]
       ELSE [num |-> s[n \div 2 + 1], den |-> 1]

\* faulty variant: the index is rounded up
Percentile_ceiling(s, tenths) ==
    LET n == Len(s)
        i == (n * tenths + 9) \div 10
    IN s[(IF i < 0 THEN 0 ELSE IF i > n - 1 THEN n - 1 ELSE i) + 1]

\* sorted_d[max(0, int(n * 0.1))] and sorted_d[min(n - 1, int(n * 0.9))]:
\* the entry at index int(n * tenths / 10), the index kept within 0..n-1
Percentile(s, tenths) ==
    LET n == Len(s)
        i == (n * tenths) \div 10
    IN s[(IF i < 0 THEN 0 ELSE IF i > n - 1 THEN n - 1 ELSE i) + 1]

\* analyze_press_durations(durations_ms)
analyze_press_durations(durations_ms) ==
    IF durations_ms = << >> THEN [error |-> "Nessun dato"]
    ELSE LET n == Len(durations_ms)
             sorted_d == sorted(durations_ms)
             median == Median(sorted_d)
             AtMost50(d) == d <= 5000
             AtMost100(d) == d <= 10000
             AtMostMedian(d) == d * median.den <= median.num
             under_50ms == Len(SelectSeq(durations_ms, AtMost50))
             under_100ms == Len(SelectSeq(durations_ms, AtMost100))
             fast_presses == SelectSeq(durations_ms, AtMostMedian)
         IN [campioni |-> n,
             media_ms |-> RoundHalfEven(SeqSum(durations_ms), n),
             mediana_ms |-> RoundHalfEven(median.num, median.den),
             min_ms |-> sorted_d[1],
             max_ms |-> sorted_d[n],
             std_dev_ms |-> StdDev(durations_ms),
             percentile_10 |-> Percentile(sorted_d, 1),
             percentile_90 |-> Percentile(sorted_d, 9),
             risoluzione_minima_ms |-> sorted_d[1],
             sotto_50ms |-> under_50ms,
             sotto_50ms_pct |-> RoundHalfEven(under_50ms * 1000, n),
             sotto_100ms |-> under_100ms,
             sotto_100ms_pct |-> RoundHalfEven(under_100ms * 1000, n),
             consistenza_tap_rapidi_std |->
                 IF Len(fast_presses) > 1 THEN StdDev(fast_presses) ELSE 0]

\* the duration samples the analysis is called on: the short lists over
\* values on both sides of 50 ms, and lists long enough for the percentile
\* indices to leave the ends of the list
SampleInputs == {1, 2, 5000, 5001}

DurationLists ==
    SeqsUpTo(SampleInputs, MaxSamples)
        \cup {<<1000, 2000, 3000, 4000, 5000>>,
              <<10001, 10000, 5001, 5000>>,
              [i \in 1..10 |-> i * 700],
              [i \in 1..11 |-> (12 - i) * 100],
              [i \in 1..12 |-> IF i % 2 = 0 THEN 5000 + i ELSE 4000 + 40 * i],
              [i \in 1..21 |-> ((i * 8) % 21) * 3 + 4990]}

AnalyzeCalls ==
    {[fn |-> "analyze_press_durations", args |-> <<q>>, done |-> FALSE, result |-> NONE] :
        q \in DurationLists}

\* a call of analyze_press_durations returns
analyze_press_durations_returns ==
    /\ call.fn = "analyze_press_durations"
    /\ ~call.done
    /\ call' = [call EXCEPT !.done = TRUE,
                            !.result = analyze_press_durations(call.args[1])]
    /\ UNCHANGED <<monitorVars, pc, now, events, main_pc, step, clock, observed,
                   hThresholds, hPrevState, hOpen, hPolls, hEdge, hReleased, hObserved, hEnded>>

(***************************************************************************)
(* compare_sessions and _calculate_trend.  A session is its                *)
(* min_duration_ms, in hundredths of a millisecond.                        *)
(***************************************************************************)
\* values[:mid] and values[mid:]
Slice(q, from, to) == [i \in 1..(to - from + 1) |-> q[from + i - 1]]

\* Where (second_half - first_half) / first_half * 100 is exactly -5, the
\* double that line 196 computes is -5.0 for some operands and the next
\* double below -5.0 for others.  These are the means <<first_half,
\* second_half>>, as fractions <<numerator, denominator>> in lowest terms,
\* for which it is below, among the means of halves of the values of
\* TrendInputs: 40.20 and 38.19 ms, 20.10 and 19.095 ms.
RoundedBelowMinus5 ==
    {<< <<4020, 1>>, <<3819, 1>> >>, << <<2010, 1>>, <<3819, 2>> >>}

\* lines 196-203 for first_half = first_sum / mid > 0 and second_half =
\* second_sum / rest: diff_pct < -5 is 20 * (second_sum * mid - first_sum *
\* rest) < -rest * first_sum, in the arithmetic of doubles
TrendOf(first_sum, mid, second_sum, rest) ==
    LET change == 20 * (second_sum * mid - first_sum * rest)
        unit == rest * first_sum
        rounded_below ==
            \E m \in RoundedBelowMinus5 :
                /\ first_sum * m[1][2] = m[1][1] * mid
                /\ second_sum * m[2][2] = m[2][1] * rest
    IN IF change < -unit \/ (change = -unit /\ rounded_below) THEN "miglioramento"
       ELSE IF change > unit THEN "peggioramento"
       ELSE "stabile"

\* _calculate_trend(values), for values that are not negative
_calculate_trend(values) ==
    IF Len(values) < 3 THEN "dati insufficienti"
    ELSE LET mid == Len(values) \div 2
             first_sum == SeqSum(Slice(values, 1, mid))
             second_sum == SeqSum(Slice(values, mid + 1, Len(values)))
         IN IF first_sum = 0 THEN "stabile"
            ELSE TrendOf(first_sum, mid, second_sum, Len(values) - mid)

\* compare_sessions(sessions): of the report, what is computed from the
\* sessions' min_duration_ms
compare_sessions(min_durations) ==
    IF min_durations = << >> THEN [error |-> "Nessuna sessione da confrontare"]
    ELSE [sessioni_totali |-> Len(min_durations),
          best_min_ms |-> sorted(min_durations)[1],
          trend |-> _calculate_trend(min_durations)]

\* the min_duration_ms of a session: 0 (a session without presses is stored
\* so), values 5% apart, values just beyond 5% apart, and 60 ms against 100
TrendInputs == {0, 3819, 4020, 6000, 9499, 9500, 10000, 10500, 10501}

TrendLists ==
    SeqsUpTo(TrendInputs, MaxSessions)
        \cup {<<10000, 10000, 10000, 6000, 6000, 6000>>}

CompareCalls ==
    {[fn |-> "compare_sessions", args |-> <<q>>, done |-> FALSE, result |-> NONE] :
        q \in TrendLists}

\* a call of compare_sessions returns
compare_sessions_returns ==
    /\ call.fn = "compare_sessions"
    /\ ~call.done
    /\ call' = [call EXCEPT !.done = TRUE,
                            !.result = compare_sessions(call.args[1])]
    /\ UNCHANGED <<monitorVars, pc, now, events, main_pc, step, clock, observed,
                   hThresholds, hPrevState, hOpen, hPolls, hEdge, hReleased, hObserved, hEnded>>

(***************************************************************************)
(* gui.py: _update_ui, which the Tk thread runs every 50 ms while a        *)
(* session is active.  It reads the fields of monitor.stats one after the  *)
(* other, without the lock; the producer runs in between.                  *)
(***************************************************************************)
\* self._session_active: set after a start() that returned True, cleared
\* after stop()
SessionActive == thread # 0 /\ "stopped" \notin hEnded /\ main_pc = "idle"

\* no handler of the Tk thread is in progress
TkIdle == IF call.fn = NONE THEN TRUE ELSE call.done

\* _update_ui, lines 694-722: stats = self.monitor.stats, and the label of
\* the total is set from stats.total_presses
update_ui_begin ==
    /\ SessionActive
    /\ TkIdle
    /\ call' = [fn |-> "_update_ui", done |-> FALSE,
                lbl_total |-> stats.total_presses, lbl_successes |-> << >>]
    /\ step' = NoStep
    /\ UNCHANGED <<monitorVars, pc, now, events, main_pc, clock, observed,
                   hThresholds, hPrevState, hOpen, hPolls, hEdge, hReleased, hObserved, hEnded>>

\* _update_ui, lines 724-731: the label "successes / total" is set from
\* stats.threshold_successes and stats.total_presses
update_ui_end ==
    /\ call.fn = "_update_ui"
    /\ ~call.done
    /\ call' = [call EXCEPT !.done = TRUE,
                            !.lbl_successes =
                                IF stats.total_presses > 0
                                THEN <<stats.threshold_successes, stats.total_presses>>
                                ELSE << >>]
    /\ step' = NoStep
    /\ UNCHANGED <<monitorVars, pc, now, events, main_pc, clock, observed,
                   hThresholds, hPrevState, hOpen, hPolls, hEdge, hReleased, hObserved, hEnded>>

(***************************************************************************)
(* The readers of the press log: get_recent_presses and get_press_log,     *)
(* called by the caller thread, and what the caller does with the list it  *)
(* is given.  A returned list is its items and whether it is the live      *)
(* _press_log object or a new list.                                        *)
(***************************************************************************)
\* list(self._press_log[-last_n:]), under the lock
get_recent_presses(last_n) == [items |-> LastN(press_log, last_n), live |-> FALSE]

\* list(self._press_log), under the lock
get_press_log == [items |-> press_log, live |-> FALSE]

\* last_n of get_recent_presses
LastNInputs == 0..(MaxLog + 1)

\* the caller thread calls one of the readers, which returns result
ReaderReturns(fn, args, result) ==
    /\ main_pc = "idle"
    /\ call' = [fn |-> fn, args |-> args, done |-> TRUE, result |-> result]
    /\ step' = [NoStep EXCEPT !.op = fn]
    /\ UNCHANGED <<monitorVars, pc, now, events, main_pc, clock, observed,
                   hThresholds, hPrevState, hOpen, hPolls, hEdge, hReleased, hObserved, hEnded>>

get_recent_presses_returns(last_n) ==
    ReaderReturns("get_recent_presses", <<last_n>>, get_recent_presses(last_n))

get_press_log_returns == ReaderReturns("get_press_log", << >>, get_press_log)

\* the caller clears the list it was given: result.clear(); a live list is
\* the press log itself
returned_list_clear ==
    /\ main_pc = "idle"
    /\ call.fn \in {"get_recent_presses", "get_press_log"}
    /\ call.result.items # << >>
    /\ call' = [call EXCEPT !.result.items = << >>]
    /\ press_log' = IF call.result.live THEN << >> ELSE press_log
    /\ step' = [NoStep EXCEPT !.op = "clear"]
    /\ UNCHANGED <<threshold_ms, running, thread, button_press_times,
                   poll_timestamps, on_press_complete, stats, controller_name,
                   connection_type, gamepad, trigger_states, dpad_states,
                   monitored_button, pc, now, events, main_pc, clock, observed,
                   hThresholds, hPrevState, hOpen, hPolls, hEdge, hReleased, hObserved, hEnded>>

(***************************************************************************)
(* Specifications.                                                         *)
(***************************************************************************)
\* the producer threads, for batches of events drawn from evs and at most cap
\* polls a session
Producer(evs, cap) ==
    \/ \E th \in Threads : loop_check(th)
    \/ \E th \in Threads, t \in clock..MaxTime, batch \in SeqsUpTo(evs, MaxBatch) :
           read_ok(th, t, batch, cap)
    \/ \E th \in Threads : read_unplugged(th)
    \/ \E th \in Threads : read_error(th)
    \/ \E th \in Threads : process_event(th)

\* start and stop, called by the caller thread
Lifecycle(outcomes, names) ==
    \/ start(outcomes, names)
    \/ stop_call
    \/ stop_return

\* Sessions of presses of the digital buttons A and B.
Next ==
    \/ Lifecycle(DeviceOutcomes, {""})
    \/ Producer(PressEvents, MaxPolls)

Spec == Init /\ [][Next]_vars

\* Sessions of presses of one digital button, judged against a threshold the
\* caller changes at any time.
NextThreshold ==
    \/ Lifecycle({"raises"}, {""})
    \/ Producer([code : {"BTN_SOUTH"}, state : {0, 1}], MaxPolls)
    \/ \E v \in ThresholdInputs : set_threshold(v)

SpecThreshold == Init /\ [][NextThreshold]_vars

\* The same sessions on a monitor constructed with any threshold:
\* ControllerMonitor(threshold_ms = t).
InitConstructed ==
    /\ \E t \in ConstructorThresholds : NewMonitor(t)
    /\ call = NoCall

SpecConstructed == InitConstructed /\ [][NextThreshold]_vars

\* Sessions of presses of one digital button under the gui: the Tk thread
\* calls start and stop and refreshes the labels in between.
NextGui ==
    \/ TkIdle /\ Lifecycle({"raises"}, {""})
    \/ Producer([code : {"BTN_SOUTH"}, state : {0, 1}], MaxPolls)
    \/ update_ui_begin
    \/ update_ui_end

SpecGui == Init /\ [][NextGui]_vars

\* Sessions of events the monitor ignores, under the scheduling of the
\* threads: a producer thread that can take a step takes one, the read of
\* the device that is in flight returns, raises or fails, and the join in
\* stop() returns once it can.  The caller is not obliged to call anything.
NextScheduled ==
    \/ Lifecycle({"raises"}, {""})
    \/ Producer(OtherEvents, MaxPolls)

ReadReturns(th) ==
    \/ \E t \in clock..MaxTime, batch \in SeqsUpTo(OtherEvents, MaxBatch) :
           read_ok(th, t, batch, MaxPolls)
    \/ read_unplugged(th)
    \/ read_error(th)

Scheduling ==
    /\ \A th \in Threads : WF_vars(loop_check(th))
    /\ \A th \in Threads : WF_vars(process_event(th))
    /\ \A th \in Threads : WF_vars(ReadReturns(th))
    /\ WF_vars(stop_return)

SpecScheduled == Init /\ [][NextScheduled]_vars /\ Scheduling

\* Sessions of presses of one digital button, with an observer the caller
\* registers, replaces and removes at any time.
NextObserver ==
    \/ Lifecycle({"raises"}, {""})
    \/ Producer([code : {"BTN_SOUTH"}, state : {0, 1}], MaxPolls)
    \/ \E cb \in CallbackInputs : set_callback(cb)

SpecObserver == Init /\ [][NextObserver]_vars

\* Sessions of events of one analog trigger, with a button filter the
\* caller changes at any time.
NextAnalog ==
    \/ Lifecycle({"raises"}, {""})
    \/ Producer(TriggerEvents, MaxPolls)
    \/ \E b \in ButtonInputs : set_monitored_button(b)

SpecAnalog == Init /\ [][NextAnalog]_vars

\* Sessions of events of one axis of the directional pad.
NextDpad ==
    \/ Lifecycle({"raises"}, {""})
    \/ Producer(DpadEvents, MaxPolls)

SpecDpad == Init /\ [][NextDpad]_vars

\* Sessions of presses of one digital button whose reads all succeed, the
\* producer running between the statements of start().
NextRestart ==
    \/ \E t \in clock..MaxTime : start_begin("", t)
    \/ \E th \in Threads : start_finish(th)
    \/ stop_call
    \/ stop_return
    \/ \E th \in Threads : loop_check(th)
    \/ \E th \in Threads, t \in clock..MaxTime,
          batch \in SeqsUpTo([code : {"BTN_SOUTH"}, state : {0, 1}], MaxBatch) :
           read_ok(th, t, batch, MaxPolls)
    \/ \E th \in Threads : process_event(th)

SpecRestart == Init /\ [][NextRestart]_vars

\* Sessions of presses of one digital button whose reads all succeed, the
\* caller reading the press log at any time.
NextReaders ==
    \/ Lifecycle({"raises"}, {""})
    \/ \E th \in Threads : loop_check(th)
    \/ \E th \in Threads, t \in clock..MaxTime,
          batch \in SeqsUpTo([code : {"BTN_SOUTH"}, state : {0, 1}], MaxBatch) :
           read_ok(th, t, batch, MaxPolls)
    \/ \E th \in Threads : process_event(th)
    \/ \E n \in LastNInputs : get_recent_presses_returns(n)
    \/ get_press_log_returns
    \/ returned_list_clear

SpecReaders == Init /\ [][NextReaders]_vars

\* Sessions long enough for the latency statistics, the device reporting
\* only events the monitor ignores.
NextLatency ==
    \/ Lifecycle({"nogamepad"}, DeviceNames)
    \/ Producer(OtherEvents, MaxLatencyPolls)

SpecLatency == Init /\ [][NextLatency]_vars

\* One call of a function of ControllerDiagnostics on a monitor that is not
\* running; the functions read nothing but their arguments.
InitDiagnostics ==
    /\ NewMonitor(DefaultThresholdMs)
    /\ call \in EvaluateCalls \cup AnalyzeCalls \cup CompareCalls

NextDiagnostics ==
    \/ evaluate_connection_returns
    \/ analyze_press_durations_returns
    \/ compare_sessions_returns

SpecDiagnostics == InitDiagnostics /\ [][NextDiagnostics]_vars

(***************************************************************************)
(* Properties.                                                             *)
(***************************************************************************)
Last(q) == q[Len(q)]

SetMin(S) == CHOOSE x \in S : \A y \in S : x <= y

SetMax(S) == CHOOSE x \in S : \A y \in S : x >= y

RECURSIVE SumOver(_, _)
\* the sum of f over the keys in S
SumOver(f, S) ==
    IF S = {} THEN 0
    ELSE LET k == CHOOSE x \in S : TRUE IN f[k] + SumOver(f, S \ {k})

\* the durations of the logged presses
LoggedDurations == {press_log[i].duration_ms : i \in DOMAIN press_log}

\* the step just taken processed a Release that reached the press tracker
ReleaseTracked == step.op = "event" /\ step.kind = "Release" /\ step.passed

\* C1: when a Release of a button at t2 reaches the tracker and the last
\* transition of that button in the session was a Press at t1, the step
\* appends exactly the PressEvent (button, t1, t2, round((t2 - t1) * 1000, 2))
\* and total_presses grows by exactly 1.
C1_PressReleaseAppendsOneEvent ==
    [][(ReleaseTracked' /\ step'.button \in DOMAIN hOpen)
       => /\ press_log' =
                 Append(press_log,
                        [button |-> step'.button,
                         press_time |-> hOpen[step'.button],
                         release_time |-> step'.t,
                         duration_ms |->
                             RoundHalfEven(
                                 (step'.t - hOpen[step'.button]) * TickUs, 10)])
          /\ stats'.total_presses = stats.total_presses + 1]_vars

\* a Release has just completed a press whose duration the rounding changed
C1_Witness ==
    /\ ReleaseTracked
    /\ press_log # << >>
    /\ Last(press_log).button = step.button
    /\ Last(press_log).release_time = step.t
    /\ Last(press_log).press_time < step.t
    /\ Last(press_log).duration_ms * 10
           # DurationOf(Last(press_log).press_time, step.t)
    /\ stats.total_presses = Len(press_log)

\* C2: a Release of a button with no open press appends no PressEvent,
\* invokes no observer and leaves SessionStats, the press log and the open
\* presses as they were.
C2_ReleaseWithoutPressIsNoOp ==
    [][(step'.op = "event" /\ step'.kind = "Release"
           /\ step'.button \notin DOMAIN hOpen)
       => UNCHANGED <<press_log, stats, observed, button_press_times>>]_vars

\* a Release of an idle button has just reached the tracker of a session
\* that has logged a press of another button
C2_Witness ==
    /\ ReleaseTracked
    /\ press_log # << >>
    /\ \A i \in DOMAIN press_log : press_log[i].button # step.button
    /\ stats.total_presses = Len(press_log)

\* C4: min_duration_ms and max_duration_ms are the least and the greatest of
\* the durations of the completed presses; with none, min_duration_ms is the
\* +infinity sentinel and max_duration_ms is 0.
C4_MinMaxAreTrue ==
    IF press_log = << >>
    THEN stats.min_duration_ms = Inf /\ stats.max_duration_ms = 0
    ELSE /\ stats.min_duration_ms = SetMin(LoggedDurations)
         /\ stats.max_duration_ms = SetMax(LoggedDurations)

\* C5: total_presses is the sum of the values of presses_per_button.
C5_TotalIsSumPerButton ==
    stats.total_presses
        = SumOver(stats.presses_per_button, DOMAIN stats.presses_per_button)

\* presses of two buttons have been counted
C5_Witness ==
    /\ Cardinality(DOMAIN stats.presses_per_button) = 2
    /\ stats.total_presses >= 2

\* C6: once a press has completed, min_duration_ms <= last_duration_ms <=
\* max_duration_ms.
C6_LastBetweenMinAndMax ==
    stats.total_presses > 0
        => /\ stats.min_duration_ms <= stats.last_duration_ms
           /\ stats.last_duration_ms <= stats.max_duration_ms

\* the last press was neither the shortest nor the only one
C6_Witness ==
    /\ stats.total_presses >= 2
    /\ stats.min_duration_ms < stats.last_duration_ms

C7_TriggerEdges ==
    [][(step'.op = "event" /\ step'.code = "ABS_Z")
       => LET was_above == DictGet(hPrevState, "ABS_Z", 0) > 128
              is_above == step'.state > 128
          IN /\ step'.kind = "Press" <=> (~was_above /\ is_above)
             /\ step'.kind = "Release" <=> (was_above /\ ~is_above)
             /\ step'.kind \in {"Press", "Release"} => step'.button = "LT"
             /\ step'.kind = "Press" => DictGet(hEdge, "LT", "Release") = "Release"
             /\ step'.kind = "Release" => DictGet(hEdge, "LT", "Release") = "Press"]_vars

\* the trigger has just come down to 128 exactly, which emitted a Release
C7_Witness ==
    /\ step.op = "event"
    /\ step.code = "ABS_Z"
    /\ step.state = 128
    /\ step.kind = "Release"
    /\ hEdge = [b \in {"LT"} |-> "Release"]

\* C8: with fewer than 10 polls recorded in the session, get_latency_stats
\* returns avg = min = max = jitter = 0 and get_polling_rate returns 0.0.
C8_FewPollsReportZero ==
    hPolls < 10
        => /\ get_latency_stats = [avg |-> 0, min |-> 0, max |-> 0, jitter |-> 0]
           /\ get_polling_rate.num = 0

\* nine polls are recorded, over a span of time that is not zero
C8_Witness ==
    /\ hPolls = 9
    /\ Len(poll_timestamps) = 9
    /\ poll_timestamps[1] < poll_timestamps[9]
    /\ get_latency_stats.avg = 0
    /\ get_polling_rate.num = 0

\* C9: with an observer registered throughout the session, the events the
\* observer has seen are the press log, and release_time does not decrease
\* along it.
C9_ObserverSeesLogInReleaseOrder ==
    hObserved
        => /\ observed = press_log
           /\ \A i, j \in DOMAIN press_log :
                  i < j => press_log[i].release_time <= press_log[j].release_time

\* a start() has just returned after finding no device
StartFailed == step.op = "start" /\ step.lookup \in DeviceOutcomes

\* C10: a start() that finds no device returns False, leaves is_running
\* False, spawns no thread and leaves SessionStats, the press log, the poll
\* buffer and the open presses as they were; after it, a start() that finds
\* a device can begin a session (as long as the model has a thread identity
\* left for it).
C10_FailedStartChangesNothing ==
    /\ [][StartFailed'
          => /\ step'.ret = "False"
             /\ ~running'
             /\ pc' = pc
             /\ thread' = thread
             /\ UNCHANGED <<stats, press_log, poll_timestamps,
                            button_press_times>>]_vars
    /\ []((StartFailed /\ \E th \in Threads : ~IsAlive(th))
             => ENABLED start({}, DeviceNames))

\* a start() has just failed after a session that logged a press and left a
\* press open
C10_Witness ==
    /\ StartFailed
    /\ step.ret = "False"
    /\ ~running
    /\ press_log # << >>
    /\ poll_timestamps # << >>
    /\ button_press_times # EmptyDict
    /\ stats.total_presses > 0

\* the session has seen a read report the disconnection
Disconnected == "unplugged" \in hEnded

\* C11: when a read reports the disconnection during monitoring, the loop
\* of that producer ends and is_running becomes False without anything
\* reaching the caller thread; from then until the next successful start()
\* is_running stays False and no poll timestamp and no PressEvent is recorded.
C11_DisconnectionEndsMonitoring ==
    /\ [][step'.op = "unplugged"
             => /\ ~running'
                /\ main_pc' = main_pc
                /\ \E th \in Threads :
                       pc[th] = "read" /\ pc' = [pc EXCEPT ![th] = "dead"]]_vars
    /\ [][(Disconnected /\ Disconnected')
             => /\ ~running'
                /\ poll_timestamps' = poll_timestamps
                /\ press_log' = press_log]_vars

\* C12: a Release that completes a press while an observer is registered,
\* one that raises included, appends the PressEvent to the press log, counts
\* it in SessionStats and invokes the observer with it; no producer loop
\* ends by it and is_running is left as it was.
C12_ObserverFailureIsSwallowed ==
    [][(ReleaseTracked' /\ step'.button \in DOMAIN hOpen
           /\ Truthy(on_press_complete))
       => /\ Len(press_log') = Len(press_log) + 1
          /\ SubSeq(press_log', 1, Len(press_log)) = press_log
          /\ Last(press_log').button = step'.button
          /\ stats'.total_presses = stats.total_presses + 1
          /\ stats'.last_duration_ms = Last(press_log').duration_ms
          /\ observed' = Append(observed, Last(press_log'))
          /\ running' = running
          /\ \A th \in Threads : pc'[th] = "dead" => pc[th] = "dead"]_vars

\* a second press has just been completed and delivered to an observer that
\* raises, which the first press was delivered to as well
C12_Witness ==
    /\ ReleaseTracked
    /\ on_press_complete = "raises"
    /\ hObserved
    /\ Len(press_log) = 2
    /\ observed = press_log
    /\ stats.total_presses = 2
    /\ running
    /\ \E th \in Threads : pc[th] = "loop"

\* a stop() has returned and no session has been started since
Stopped == "stopped" \in hEnded

\* C13: what stop() returned is final: from the return of stop() until the
\* next session starts, the SessionStats it returned is not modified and no
\* PressEvent is appended to the press log.
C13_StopReturnsFinalStats ==
    [][(Stopped /\ Stopped') => stats' = stats /\ press_log' = press_log]_vars

\* C14: evaluate_connection returns the not-available label "N/D" exactly
\* when the polling rate is 0; otherwise it returns "Ottima" when the rate is
\* at least 200 Hz and the jitter at most 2.0 ms, else "Buona" when the rate is
\* at least 100 Hz and the jitter at most 5.0 ms, else "Discreta" when the rate
\* is at least 50 Hz and the jitter at most 10.0 ms, else "Scarsa"; statistics
\* without a jitter count as jitter 0.
C14_ConnectionQuality ==
    (call.fn = "evaluate_connection" /\ call.done) =>
        LET rate == call.args[1]
            jitter == IF "jitter" \in DOMAIN call.args[2] THEN call.args[2]["jitter"] ELSE 0
        IN /\ call.result = "N/D" <=> rate = 0
           /\ rate # 0 =>
                 call.result =
                     IF rate >= 20000 /\ jitter <= 200 THEN "Ottima"
                     ELSE IF rate >= 10000 /\ jitter <= 500 THEN "Buona"
                     ELSE IF rate >= 5000 /\ jitter <= 1000 THEN "Discreta"
                     ELSE "Scarsa"

\* 250 Hz with 1.0 ms of jitter has been judged "Ottima"
C14_Witness ==
    /\ call.fn = "evaluate_connection"
    /\ call.done
    /\ call.args = <<25000, [k \in {"jitter"} |-> 100]>>
    /\ call.result = "Ottima"

\* 60 Hz with 15 ms of jitter has been judged "Scarsa"
C14_WitnessPoor ==
    /\ call.fn = "evaluate_connection"
    /\ call.done
    /\ call.args = <<6000, [k \in {"jitter"} |-> 1500]>>
    /\ call.result = "Scarsa"

\* x is the entry at index i (from 0) of the samples q in ascending order
IsRank(q, x, i) ==
    /\ \E k \in DOMAIN q : q[k] = x
    /\ Cardinality({k \in DOMAIN q : q[k] < x}) <= i
    /\ Cardinality({k \in DOMAIN q : q[k] <= x}) > i

\* what analyze_press_durations reports besides the median: only the error
\* indicator for no samples; otherwise the percentiles are the entries at
\* index floor(n * 0.1) and floor(n * 0.9) of the sorted samples, the indices
\* kept within 0..n-1, the minimum is the smallest sample, and sotto_50ms
\* counts the samples of at most 50 ms
ReportsOrderStatistics(q, r) ==
    LET n == Len(q)
        Clamp(i) == IF i < 0 THEN 0 ELSE IF i > n - 1 THEN n - 1 ELSE i
    IN IF n = 0 THEN DOMAIN r = {"error"}
       ELSE /\ "error" \notin DOMAIN r
            /\ IsRank(q, r.percentile_10, Clamp(n \div 10))
            /\ IsRank(q, r.percentile_90, Clamp((9 * n) \div 10))
            /\ \A k \in DOMAIN q : r.min_ms <= q[k]
            /\ \E k \in DOMAIN q : r.min_ms = q[k]
            /\ r.sotto_50ms = Cardinality({k \in DOMAIN q : q[k] <= 5000})

\* twice the reported median, less the sum of the two middle samples (n even)
\* or less twice the middle sample (n odd)
MedianError(q, r) ==
    LET n == Len(q)
        lo == CHOOSE x \in {q[k] : k \in DOMAIN q} : IsRank(q, x, (n - 1) \div 2)
        hi == CHOOSE x \in {q[k] : k \in DOMAIN q} : IsRank(q, x, n \div 2)
    IN 2 * r.mediana_ms - (lo + hi)

\* C15 as stated: analyze_press_durations reports, for a nonempty list, the
\* median as the middle sample (n odd) or exactly the average of the two
\* middle samples (n even), the percentiles, the minimum and the count of
\* samples of at most 50 ms; for an empty list only an error indicator.
C15_DurationAnalysis ==
    (call.fn = "analyze_press_durations" /\ call.done) =>
        /\ ReportsOrderStatistics(call.args[1], call.result)
        /\ call.args[1] # << >> => MedianError(call.args[1], call.result) = 0

\* C15 amended: as C15, but the reported median is the middle sample or the
\* average of the two middle samples rounded to two decimals of a
\* millisecond, so it is within half a hundredth of a millisecond of it.
C15_DurationAnalysisRounded ==
    (call.fn = "analyze_press_durations" /\ call.done) =>
        /\ ReportsOrderStatistics(call.args[1], call.result)
        /\ call.args[1] # << >> => MedianError(call.args[1], call.result) \in {-1, 0, 1}

\* eleven samples have been analysed; the percentiles are neither the smallest
\* nor the largest sample
C15_Witness ==
    /\ call.fn = "analyze_press_durations"
    /\ call.done
    /\ Len(call.args[1]) = 11
    /\ call.result.min_ms < call.result.percentile_10
    /\ call.result.percentile_10 < call.result.mediana_ms
    /\ call.result.mediana_ms < call.result.percentile_90
    /\ call.result.percentile_90 < call.result.max_ms

\* the samples 10, 20, 30, 40, 50 ms have been analysed
C15_WitnessExample ==
    /\ call.fn = "analyze_press_durations"
    /\ call.done
    /\ call.args = <<<<1000, 2000, 3000, 4000, 5000>>>>
    /\ call.result.mediana_ms = 3000
    /\ call.result.media_ms = 3000
    /\ call.result.min_ms = 1000
    /\ call.result.sotto_50ms = 5
    /\ call.result.sotto_50ms_pct = 1000

\* the empty list has been analysed
C15_WitnessEmpty ==
    /\ call.fn = "analyze_press_durations"
    /\ call.done
    /\ call.args = << << >> >>
    /\ call.result = [error |-> "Nessun dato"]

C16_WitnessExample ==
    /\ call.fn = "compare_sessions"
    /\ call.done
    /\ call.args = <<<<10000, 10000, 10000, 6000, 6000, 6000>>>>
    /\ call.result.trend = "miglioramento"

\* the series 100, 95, 95 ms, a change of exactly -5%, has been found stable
C16_WitnessBoundary ==
    /\ call.fn = "compare_sessions"
    /\ call.done
    /\ call.args = <<<<10000, 9500, 9500>>>>
    /\ call.result.trend = "stabile"

\* C17: while monitored_button is a button name b, an event that is a
\* transition of another button changes neither the open presses nor the log,
\* the statistics or what the observer is given, and a PressEvent appended by
\* an event has button = b.
C17_FilterDropsOtherButtons ==
    [][(step'.op = "event" /\ Truthy(monitored_button)) =>
          /\ (step'.button # NONE /\ step'.button # monitored_button) =>
                /\ button_press_times' = button_press_times
                /\ press_log' = press_log
                /\ stats' = stats
                /\ observed' = observed
          /\ Len(press_log') > Len(press_log) =>
                Last(press_log').button = monitored_button]_vars

\* the filter is "A" and the Release of the trigger LT, whose Press was
\* tracked before the filter was set, has been dropped: the press stays open
C17_Witness ==
    /\ step.op = "event"
    /\ step.button = "LT"
    /\ step.kind = "Release"
    /\ monitored_button = "A"
    /\ "LT" \in DOMAIN button_press_times
    /\ press_log = << >>

\* the filter is "LT" and a press of LT has been logged
C17_WitnessPassed ==
    /\ step.op = "event"
    /\ step.button = "LT"
    /\ step.kind = "Release"
    /\ monitored_button = "LT"
    /\ Len(press_log) > 0
    /\ Last(press_log).release_time = step.t

\* C18: the threshold_ms that a completed press was judged against is never
\* below 1.0 ms, set_threshold storing max(1.0, v).
C18_ThresholdNeverBelowOne ==
    \A i \in DOMAIN hThresholds : hThresholds[i] >= 100

\* set_threshold(0) has stored 1.0, and a press has been judged against it
C18_WitnessClamped ==
    /\ threshold_ms = 100
    /\ Len(hThresholds) > 0
    /\ Last(hThresholds) = 100

\* C19: at no time are two producer threads alive, so _poll_timestamps and
\* the press tracker have a single writer.
C19_SingleProducer ==
    Cardinality({th \in Threads : IsAlive(th)}) <= 1

\* every step that changes the press log or SessionStats makes its writes
\* with the lock held
C20_WritesLocked ==
    [][(press_log' # press_log \/ stats' # stats) => step'.locked]_vars

\* the labels that one refresh of the gui has set show one state of
\* SessionStats: the total beside the successes is the total of the label
C20_ReadsOneState ==
    (call.fn = "_update_ui" /\ call.done /\ call.lbl_successes # << >>) =>
        call.lbl_total = call.lbl_successes[2]

\* C20: every write to the press log and to SessionStats, the reset at the
\* start of a session included, is made with the lock held, and a reader on
\* another thread reads under the lock or a snapshot, so what it reads is one
\* state of the shared object.
C20_SharedStateIsGuarded == C20_WritesLocked /\ []C20_ReadsOneState

C22_StopTerminatesProducer ==
    /\ (main_pc = "joining") ~> (main_pc = "idle")
    /\ \A th \in Threads : (Stopped /\ IsAlive(th)) ~> ~IsAlive(th)

\* the part of C22 that does not depend on what the caller does next: a
\* producer alive once stop() has returned terminates unless a start() sets
\* the flag again before the producer looks at it
C22_TerminatesUnlessRestarted ==
    /\ (main_pc = "joining") ~> (main_pc = "idle")
    /\ \A th \in Threads : (Stopped /\ IsAlive(th)) ~> (~IsAlive(th) \/ running)

\* stop() has returned after its join timed out: the producer is still
\* blocked in the read
C22_WitnessTimedOut ==
    /\ step.op = "stop"
    /\ Stopped
    /\ \E th \in Threads : pc[th] = "read"

\* C23: a read of the device that fails with an exception other than the
\* disconnection leaves _running, the poll timestamps, the press log,
\* SessionStats and the open presses as they are, and the producer whose read
\* failed goes back to the head of its loop; no producer ends by it.
C23_TransientFailureKeepsMonitoring ==
    [][step'.op = "read_error" =>
          /\ running' = running
          /\ poll_timestamps' = poll_timestamps
          /\ press_log' = press_log
          /\ stats' = stats
          /\ button_press_times' = button_press_times
          /\ \E th \in Threads : pc[th] = "read" /\ pc' = [pc EXCEPT ![th] = "loop"]]_vars

\* a read has just failed in a running session that has recorded a poll and
\* holds an open press
C23_Witness ==
    /\ step.op = "read_error"
    /\ running
    /\ Len(poll_timestamps) > 0
    /\ DOMAIN button_press_times # {}
    /\ \E th \in Threads : pc[th] = "loop"

\* C24: the open presses hold one press time per button.  A Press that
\* reaches the tracker stores its time for its button, over the time of an
\* earlier Press if the button is held, and logs nothing; a Release that
\* reaches the tracker while a time is stored appends exactly one PressEvent,
\* whose press_time is the stored time, and removes the time.
C24_MostRecentPressWins ==
    [][(step'.op = "event" /\ step'.passed) =>
          /\ step'.kind = "Press" =>
                /\ DOMAIN button_press_times' = DOMAIN button_press_times \cup {step'.button}
                /\ button_press_times'[step'.button] = step'.t
                /\ \A b \in DOMAIN button_press_times \ {step'.button} :
                       button_press_times'[b] = button_press_times[b]
                /\ press_log' = press_log
                /\ stats' = stats
          /\ (step'.kind = "Release" /\ step'.button \in DOMAIN button_press_times) =>
                /\ Len(press_log') = Len(press_log) + 1
                /\ SubSeq(press_log', 1, Len(press_log)) = press_log
                /\ press_log'[Len(press_log')].button = step'.button
                /\ press_log'[Len(press_log')].press_time = button_press_times[step'.button]
                /\ press_log'[Len(press_log')].release_time = step'.t
                /\ DOMAIN button_press_times' = DOMAIN button_press_times \ {step'.button}]_vars

\* a Press of A at a later time has just replaced the time of an earlier
\* Press of A, and nothing has been logged for the earlier one
C24_Witness ==
    /\ step.op = "event"
    /\ step.kind = "Press"
    /\ step.passed
    /\ step.button = "A"
    /\ step.prev # NoTime
    /\ step.prev < step.t
    /\ button_press_times["A"] = step.t
    /\ press_log = << >>

\* the Release after a repeated Press has logged one event, whose press time
\* is the time of the later Press
C24_WitnessRelease ==
    /\ ReleaseTracked
    /\ step.button = "A"
    /\ step.prev = 1
    /\ hPolls = 3
    /\ Len(press_log) = 1
    /\ press_log[1].press_time = 1
    /\ stats.total_presses = 1

\* C25: an event of an axis of the directional pad emits a Press exactly when
\* the state goes from 0 to a value that is not 0, of either sign, and a
\* Release exactly when it goes from such a value to 0, the state before the
\* first event of a session counting as 0; a change from one nonzero value to
\* another emits nothing and changes neither the open presses nor the log.
C25_DpadEdges ==
    [][(step'.op = "event" /\ step'.code = "ABS_HAT0X")
       => LET was_nonzero == DictGet(hPrevState, "ABS_HAT0X", 0) # 0
              is_nonzero == step'.state # 0
          IN /\ step'.kind = "Press" <=> (~was_nonzero /\ is_nonzero)
             /\ step'.kind = "Release" <=> (was_nonzero /\ ~is_nonzero)
             /\ step'.kind \in {"Press", "Release"} => step'.button = "D-Pad X"
             /\ (was_nonzero /\ is_nonzero) =>
                   /\ step'.button = NONE
                   /\ button_press_times' = button_press_times
                   /\ press_log' = press_log
                   /\ stats' = stats]_vars

\* the axis has just gone from -1 directly to 1 while its press is open:
\* nothing was emitted
C25_Witness ==
    /\ step.op = "event"
    /\ step.code = "ABS_HAT0X"
    /\ step.state = 1
    /\ step.was = -1
    /\ step.kind = "Ignore"
    /\ hPrevState = [c \in {"ABS_HAT0X"} |-> 1]
    /\ "D-Pad X" \in DOMAIN button_press_times
    /\ hEdge = [b \in {"D-Pad X"} |-> "Press"]
    /\ hPolls = 2
    /\ dpad_states = [c \in {"ABS_HAT0X"} |-> TRUE]

\* the axis has just gone from 0 to -1, which emitted a Press
C25_WitnessNegative ==
    /\ step.op = "event"
    /\ step.code = "ABS_HAT0X"
    /\ step.state = -1
    /\ step.kind = "Press"
    /\ button_press_times = [b \in {"D-Pad X"} |-> step.t]

\* the last min(n, Len(q)) entries of q, in order
LastMin(q, n) ==
    LET k == IF n <= Len(q) THEN n ELSE Len(q)
    IN SubSeq(q, Len(q) - k + 1, Len(q))

\* get_recent_presses(n) with n in lo.. returns a new list of exactly the last
\* min(n, len(log)) events of the log, in order
RecentIsLastMin(lo) ==
    (step'.op = "get_recent_presses" /\ call'.args[1] >= lo)
    => /\ call'.result.items = LastMin(press_log, call'.args[1])
       /\ ~call'.result.live
       /\ press_log' = press_log

\* get_press_log() returns a new list of the whole log, and a change of a
\* returned list is not a change of the live log
ReturnsAreCopies ==
    /\ step'.op = "get_press_log"
       => /\ call'.result.items = press_log
          /\ ~call'.result.live
          /\ press_log' = press_log
    /\ step'.op = "clear"
       => /\ call'.result.items # call.result.items
          /\ press_log' = press_log
          /\ stats' = stats

\* C26: get_recent(n) returns a copy of exactly the last min(n, len(log))
\* events of the log, in order, for every n >= 0
C26_RecentReturnsLastMin == [][RecentIsLastMin(0)]_vars

\* C26, for n >= 1: get_recent(n) returns a copy of exactly the last
\* min(n, len(log)) events of the log, in order
C26_RecentReturnsLastMinPositive == [][RecentIsLastMin(1)]_vars

\* C26, the copies: get_all() returns a copy of the whole log, and mutating a
\* list returned by either reader never changes the live log
C26_ReturnsAreCopies == [][ReturnsAreCopies]_vars

\* get_recent_presses(0) has just returned both events of a log of two
C26_WitnessZero ==
    /\ step.op = "get_recent_presses"
    /\ call.args = <<0>>
    /\ Len(press_log) = 2
    /\ call.result.items = press_log

\* get_recent_presses(1) has just returned the second event of a log of two
C26_WitnessOne ==
    /\ step.op = "get_recent_presses"
    /\ call.args = <<1>>
    /\ Len(press_log) = 2
    /\ call.result.items = <<press_log[2]>>

\* the caller has just cleared the list get_press_log() returned for a log of
\* two events, and the log still has both
C26_WitnessCleared ==
    /\ step.op = "clear"
    /\ call.fn = "get_press_log"
    /\ call.result.items = << >>
    /\ Len(press_log) = 2

\* a start() that begins a session leaves a new SessionStats, an empty log,
\* no open press, an empty poll buffer and no trigger or d-pad edge state
ResetOnStart ==
    (step'.op = "start" /\ step'.ret = "True" /\ ~running)
    => /\ running'
       /\ stats' = SessionStats(clock')
       /\ press_log' = << >>
       /\ button_press_times' = EmptyDict
       /\ poll_timestamps' = << >>
       /\ trigger_states' = EmptyDict
       /\ dpad_states' = EmptyDict

\* no logged press began before the session it is logged in
NoPressFromBefore ==
    \A i \in DOMAIN press_log : press_log[i].press_time >= stats.start_time

\* C27: every successful start() that begins a session resets all session
\* state, so that a press opened in a previous session is never completed by
\* a Release in the new one
C27_StartResetsSession == [][ResetOnStart]_vars /\ []NoPressFromBefore

\* C27, the reset alone: the state right after a start() that begins a
\* session is the reset state
C27_ResetOnStart == [][ResetOnStart]_vars

\* a second session has just begun, the first having left a log, polls and a
\* statistics of one press
C27_WitnessSecondSession ==
    /\ step.op = "start"
    /\ step.ret = "True"
    /\ clock = 1
    /\ stats = SessionStats(1)
    /\ press_log = << >>
    /\ \E th \in Threads : pc[th] = "dead"

\* a press of the new session's log began before the session did
C27_WitnessAcross ==
    /\ step.op = "event"
    /\ step.kind = "Release"
    /\ Len(press_log) = 1
    /\ press_log[1].press_time < stats.start_time

\* C28: for every PressEvent in the log the button was held from press_time
\* to release_time without interruption: no Release of the same button was
\* classified between the Press that stored press_time and the Release that
\* completed the event, whatever the raw events and the changes of the
\* monitored button in between
C28_HeldThroughout ==
    [][Len(press_log') > Len(press_log)
       => press_log'[Len(press_log')].button \notin hReleased]_vars

\* a Release of LT has just been dropped by the filter, its press staying open
C28_WitnessDropped ==
    /\ step.op = "event"
    /\ step.kind = "Release"
    /\ step.button = "LT"
    /\ ~step.passed
    /\ "LT" \in DOMAIN button_press_times
    /\ "LT" \in hReleased

\* the log, the press count and the history of durations agree
LogMatchesStats ==
    /\ Len(press_log) = stats.total_presses
    /\ Len(stats.durations_history) = stats.total_presses
    /\ \A i \in DOMAIN press_log :
          /\ i \in DOMAIN stats.durations_history
          /\ stats.durations_history[i] =
                 <<press_log[i].release_time, press_log[i].duration_ms,
                   press_log[i].button>>

\* C29: in every reachable state, the caller not being between two statements
\* of start(), len(press_log) = total_presses = len(durations_history), and
\* the i-th entry of the history is (release_time, duration_ms, button) of
\* the i-th logged event
C29_LogMatchesStats == main_pc # "starting" => LogMatchesStats

\* C29, in every state whatsoever, between the statements of start() too
C29_LogMatchesStatsAlways == LogMatchesStats

\* the log and the statistics hold the same two presses
C29_WitnessTwo ==
    /\ Len(press_log) = 2
    /\ stats.total_presses = 2
    /\ Len(stats.durations_history) = 2
    /\ main_pc = "idle"

\* start() has returned and the statistics of the new session count a press
\* its log does not have
C29_WitnessLost ==
    /\ step.op = "start"
    /\ step.ret = "True"
    /\ press_log = << >>
    /\ stats.total_presses = 1

\* C30: start() while is_running is already true is a no-op that returns
\* true: no thread is created, and the statistics, the log, the poll buffer,
\* the open presses and every other field of the monitor are left as they were
C30_StartWhileRunningIsNoOp ==
    [][(step'.op = "start" /\ running)
       => /\ step'.ret = "True"
          /\ pc' = pc
          /\ thread' = thread
          /\ running'
          /\ stats' = stats
          /\ press_log' = press_log
          /\ poll_timestamps' = poll_timestamps
          /\ button_press_times' = button_press_times
          /\ UNCHANGED <<monitorVars, now, events>>]_vars

\* start() has just returned True without looking for a device, the session
\* having one logged press, one open press and three polls
C30_Witness ==
    /\ step.op = "start"
    /\ step.ret = "True"
    /\ step.lookup = NONE
    /\ running
    /\ Len(press_log) = 1
    /\ stats.total_presses = 1
    /\ DOMAIN button_press_times # {}
    /\ Len(poll_timestamps) = 3

====
